---- MODULE Spec2Model ----
(***************************************************************************)
(* A model of local_db.DatabaseManager (src/local_db/database_manager.py)  *)
(* managing the table MockTableObject (src/tests/mock_table_object.py) in  *)
(* one SQLite file through one SQLAlchemy session.                         *)
(*                                                                         *)
(* A Python value is a record [t, i, s]: t is the Python type, i the       *)
(* number of an int/float/bool, s the text of a str.  A stored row is a    *)
(* function from the column names to such values; SQL NULL is None.        *)
(***************************************************************************)
EXTENDS Integers, Sequences, FiniteSets, TLC

\* Identifiers explored: explicit ids and auto-assigned ids stay in 1..MaxId.
MaxId == 2
\* The count of successful adds is kept exactly up to MaxAdded.
\* The sessions a manager creates are counted up to MaxSessions.
MaxSessions == 2
MaxAdded == 2

-----------------------------------------------------------------------------
(* Python values *)

PyInt(n)   == [t |-> "int",   i |-> n, s |-> ""]
PyFloat(n) == [t |-> "float", i |-> n, s |-> ""]
PyStr(x)   == [t |-> "str",   i |-> 0, s |-> x]
None       == [t |-> "NoneType", i |-> 0, s |-> ""]
PyBool(b)  == [t |-> "bool", i |-> IF b THEN 1 ELSE 0, s |-> ""]
\* A datetime.datetime, a datetime.timedelta and a bytes value
Timestamp  == [t |-> "datetime", i |-> 0, s |-> ""]
Timedelta  == [t |-> "timedelta", i |-> 0, s |-> ""]
PyBytes    == [t |-> "bytes", i |-> 0, s |-> ""]
\* Marks a keyword that is not passed at all (not a Python value).
Absent     == [t |-> "absent", i |-> 0, s |-> ""]

\* A keyword dictionary: the keys of f that are passed, with their values.
Kw(f) == [k \in {c \in DOMAIN f : f[c] # Absent} |-> f[k]]
EmptyKw == [k \in {} |-> None]

-----------------------------------------------------------------------------
(* The table schema: MockTableObject *)

\* BaseTable.get_column_names
get_column_names == {"id", "name", "age", "email"}

\* BaseTable.get_column_types: the SQL type class of each column
get_column_types ==
    [id |-> "Integer", name |-> "String", age |-> "Integer", email |-> "String"]

\* Columns declared nullable=False (the primary key is filled in by SQLite).
NotNullColumns == {"name"}
\* Columns declared unique=True or primary_key=True.
UniqueColumns == {"id", "email"}

\* pd.Series([value]).dtype : the dtype pandas infers for one value
series_dtype(v) ==
    CASE v.t = "int"   -> "int64"
      [] v.t = "float" -> "float64"
      [] v.t = "bool"  -> "bool"
      [] v.t = "datetime" -> "datetime64[ns]"
      [] v.t = "timedelta" -> "timedelta64[ns]"
      [] OTHER -> "object"

\* utils.map_dtype_to_sql: the SQL type class, or the exception raised.  A
\* dtype that is none of integer, float, bool, datetime64, object or string
\* reaches pd.api.types.is_binary_dtype, which pandas does not have.
map_dtype_to_sql(dtype) ==
    CASE dtype = "int64"   -> "Integer"
      [] dtype = "float64" -> "Float"
      [] dtype = "bool"    -> "Boolean"
      [] dtype = "datetime64[ns]" -> "DateTime"
      [] dtype = "object"  -> "String"
      [] OTHER -> "AttributeError"

\* DatabaseManager._dict_columns_match without the raise: keys <= columns
columns_subset(data) == DOMAIN data \subseteq get_column_names

\* utils.map_dtype_list_to_sql over the values of data, by key
sql_datatypes_dict(data) ==
    [k \in DOMAIN data |-> map_dtype_to_sql(series_dtype(data[k]))]

\* DatabaseManager._dict_types_match on a manager whose table class declares
\* column_types: "ok", TypeError when {(column, inferred type)} is no subset
\* of {(column, declared type)}, or the exception of the inference.
dict_types_match_on(column_types, data) ==
    IF \E k \in DOMAIN data : sql_datatypes_dict(data)[k] = "AttributeError"
    THEN "AttributeError"
    ELSE IF {<<k, sql_datatypes_dict(data)[k]>> : k \in DOMAIN data}
               \subseteq {<<c, column_types[c]>> : c \in DOMAIN column_types}
    THEN "ok"
    ELSE "TypeError"

\* DatabaseManager._dict_types_match without the raise, on MockTableObject
types_subset(data) == dict_types_match_on(get_column_types, data) = "ok"

\* DatabaseManager._dict_columns_match: "ok" or the exception it raises
_dict_columns_match(data) ==
    IF columns_subset(data) THEN "ok" ELSE "ValueError"

\* DatabaseManager._dict_types_match: "ok" or the exception it raises
_dict_types_match(data) == dict_types_match_on(get_column_types, data)

\* DatabaseManager._dict_compatible: columns first, then types
_dict_compatible(data) ==
    IF _dict_columns_match(data) # "ok" THEN _dict_columns_match(data)
    ELSE _dict_types_match(data)

-----------------------------------------------------------------------------
(* The SQLite table behind the session: a set of rows *)

\* The integer primary key SQLite gives a row inserted without one:
\* one more than the largest rowid in the table (no AUTOINCREMENT keyword).
next_rowid(rows) ==
    IF rows = {} THEN 1
    ELSE (CHOOSE m \in {r.id.i : r \in rows} :
              \A n \in {r.id.i : r \in rows} : n <= m) + 1

\* table_class(**kwargs) as the INSERT stores it: missing columns are NULL,
\* a missing id is assigned by SQLite.
new_item(kwargs, rows) ==
    [c \in get_column_names |->
        IF c \in DOMAIN kwargs THEN kwargs[c]
        ELSE IF c = "id" THEN PyInt(next_rowid(rows))
        ELSE None]

\* A mutation of violates_constraints: the unique constraints are not enforced.
violates_not_null_only(row, others) ==
    \E c \in NotNullColumns : row[c] = None

\* The constraints of MockTableObject: NOT NULL columns hold a value and no
\* other row has the same non-NULL value in a unique column.
violates_constraints(row, others) ==
    \/ \E c \in NotNullColumns : row[c] = None
    \/ \E c \in UniqueColumns : \E r \in others :
           row[c] # None /\ r[c] = row[c]

\* Rows in the order a SELECT without ORDER BY returns them: by rowid.
RECURSIVE rowid_order(_)
rowid_order(S) ==
    IF S = {} THEN <<>>
    ELSE LET first == CHOOSE r \in S : \A q \in S : r.id.i <= q.id.i
         IN  <<first>> \o rowid_order(S \ {first})

\* The ids of the rows of S, ascending
rowid_order_ids(S) == [n \in 1..Cardinality(S) |-> rowid_order(S)[n].id.i]

\* session.query(table_class).filter_by(**kwargs): equality on every keyword
\* (a None keyword is rendered IS NULL).
filter_by(rows, kwargs) ==
    {r \in rows : \A k \in DOMAIN kwargs : r[k] = kwargs[k]}

-----------------------------------------------------------------------------
(* The session: S.db is committed to the file, S.view is what the session's
   transaction sees, S.active is false from a failed flush, which rolls the
   transaction back, until the next session.rollback(); a session in that
   state raises PendingRollbackError at every statement and commit *)

\* session.flush() of a pending new_item: the INSERT, or IntegrityError
flush_insert(S, row) ==
    IF ~S.active
    THEN [ok |-> FALSE, exc |-> "PendingRollbackError", S |-> S]
    ELSE IF violates_constraints(row, S.view)
    THEN [ok |-> FALSE, exc |-> "IntegrityError",
          S |-> [S EXCEPT !.active = FALSE]]
    ELSE [ok |-> TRUE, exc |-> "none",
          S |-> [S EXCEPT !.view = S.view \cup {row}]]

\* A mutation of flush_update: the UPDATE is not checked against the
\* table's constraints.
flush_update_unchecked(S, item, changed) ==
    [ok |-> TRUE, exc |-> "none",
     S |-> [S EXCEPT !.view = (S.view \ {item}) \cup {changed}]]

\* session.flush() of a modified item: the UPDATE (none when nothing changed)
flush_update(S, item, changed) ==
    IF changed = item THEN [ok |-> TRUE, exc |-> "none", S |-> S]
    ELSE IF violates_constraints(changed, S.view \ {item})
    THEN [ok |-> FALSE, exc |-> "IntegrityError",
          S |-> [S EXCEPT !.active = FALSE]]
    ELSE [ok |-> TRUE, exc |-> "none",
          S |-> [S EXCEPT !.view = (S.view \ {item}) \cup {changed}]]

\* A mutation of flush_delete: the whole table is deleted.
flush_delete_all(S, items) == [S EXCEPT !.view = {}]

\* session.delete(item) for each item, flushed
flush_delete(S, items) == [S EXCEPT !.view = S.view \ items]

\* A mutation of rollback: the session is left as the failed flush left it.
rollback_skipped(S) == S

\* session.rollback()
rollback(S) == [S EXCEPT !.view = S.db, !.active = TRUE]

\* A mutation of commit: nothing is written to the file.
commit_skipped(S) == S

\* session.commit() on a usable session
commit(S) == [S EXCEPT !.db = S.view]

-----------------------------------------------------------------------------
(* What a call produces *)

Log(level, msg) == [level |-> level, msg |-> msg]

ReturnsNone == [kind |-> "None", items |-> <<>>]
ReturnsList(seq) == [kind |-> "list", items |-> seq]
ReturnsItem(row) == [kind |-> "item", items |-> <<row>>]
ReturnsTrue == [kind |-> "True", items |-> <<>>]

\* The session afterwards, the exception raised ("none" when the call
\* returns), the value returned and the log entries emitted.
Outcome(S, exc, ret, entries) ==
    [S |-> S, raised |-> exc, ret |-> ret, log |-> entries]

-----------------------------------------------------------------------------
(* DatabaseManager: adding *)

MsgColumnsMatch   == "Dictionary columns match database table columns"
MsgColumnsNoMatch == "Dictionary columns do not match database table columns"
MsgTypesMatch     == "Dictionary types match database table types"
MsgTypesNoMatch   == "ictionary types do not match database table types"
MsgAlreadyExists  == "Item already exists in database."
MsgAdded          == "Item added to database."

\* The entries _dict_columns_match / _dict_types_match log on the way
validation_log(data, with_types) ==
    IF ~columns_subset(data) THEN <<Log("error", MsgColumnsNoMatch)>>
    ELSE IF ~with_types \/ _dict_types_match(data) = "AttributeError"
    THEN <<Log("debug", MsgColumnsMatch)>>
    ELSE IF ~types_subset(data)
    THEN <<Log("debug", MsgColumnsMatch), Log("error", MsgTypesNoMatch)>>
    ELSE <<Log("debug", MsgColumnsMatch), Log("debug", MsgTypesMatch)>>

\* A mutation of add_item: the validation is skipped.
add_item_unchecked(S, kwargs) ==
    LET fl == flush_insert(S, new_item(kwargs, S.view))
    IN  IF fl.ok
        THEN Outcome(commit(fl.S), "none", ReturnsNone,
                     <<Log("info", MsgAdded)>>)
        ELSE Outcome(commit(rollback(fl.S)), "IntegrityError", ReturnsNone,
                     <<Log("error", MsgAlreadyExists), Log("info", MsgAdded)>>)

\* A mutation of add_item: the IntegrityError is swallowed after the rollback.
add_item_swallow(S, kwargs) ==
    LET check == _dict_compatible(kwargs)
        fl == flush_insert(S, new_item(kwargs, S.view))
    IN  IF check # "ok"
        THEN Outcome(S, check, ReturnsNone, validation_log(kwargs, TRUE))
        ELSE IF fl.ok
        THEN Outcome(commit(fl.S), "none", ReturnsNone,
                     validation_log(kwargs, TRUE) \o <<Log("info", MsgAdded)>>)
        ELSE Outcome(commit(rollback(fl.S)), "none", ReturnsNone,
                     validation_log(kwargs, TRUE)
                         \o <<Log("error", MsgAlreadyExists),
                              Log("info", MsgAdded)>>)

\* The finally block of add_item and update_item:
\* session.commit() and then the success entry; on a session that is not
\* usable the commit raises instead, in place of the exception exc on its way.
finally_commit(S, exc, entries, success) ==
    IF S.active
    THEN Outcome(commit(S), exc, ReturnsNone, entries \o <<success>>)
    ELSE Outcome(S, "PendingRollbackError", ReturnsNone, entries)

\* DatabaseManager.add_item(**kwargs)
add_item(S, kwargs) ==
    LET check == _dict_compatible(kwargs)
        fl == flush_insert(S, new_item(kwargs, S.view))
    IN  IF check # "ok"
        THEN \* _dict_compatible raises before the try block
             Outcome(S, check, ReturnsNone, validation_log(kwargs, TRUE))
        ELSE IF fl.ok
        THEN \* finally: commit and the success entry
             finally_commit(fl.S, "none", validation_log(kwargs, TRUE),
                            Log("info", MsgAdded))
        ELSE IF fl.exc = "IntegrityError"
        THEN \* except IntegrityError: rollback, log, re-raise;
             \* finally: commit and the success entry all the same
             finally_commit(rollback(fl.S), "IntegrityError",
                            validation_log(kwargs, TRUE)
                                \o <<Log("error", MsgAlreadyExists)>>,
                            Log("info", MsgAdded))
        ELSE \* another exception of the flush passes the except clause
             finally_commit(fl.S, fl.exc, validation_log(kwargs, TRUE),
                            Log("info", MsgAdded))

\* No batch of entries
NoEntries == <<>>

\* A mutation of add_multiple_items: a rejected entry is skipped and the
\* entries after it are still added.
RECURSIVE add_multiple_items_skipping(_, _)
add_multiple_items_skipping(S, entries) ==
    IF entries = <<>>
    THEN Outcome(commit(S), "none", ReturnsNone, <<>>)
    ELSE LET first == add_item(S, Head(entries))
             rest == add_multiple_items_skipping(first.S, Tail(entries))
         IN  Outcome(rest.S,
                     IF first.raised # "none" THEN first.raised ELSE rest.raised,
                     ReturnsNone, first.log \o rest.log)

\* DatabaseManager.add_multiple_items(entries): add_item for each entry in
\* turn; the first one that raises ends the call, the commit after the loop
\* runs when none does.
RECURSIVE add_multiple_items(_, _)
add_multiple_items(S, entries) ==
    IF entries = <<>>
    THEN Outcome(commit(S), "none", ReturnsNone, <<>>)
    ELSE LET first == add_item(S, Head(entries))
             rest == add_multiple_items(first.S, Tail(entries))
         IN  IF first.raised # "none" THEN first
             ELSE Outcome(rest.S, rest.raised, ReturnsNone,
                          first.log \o rest.log)

-----------------------------------------------------------------------------
(* DatabaseManager: appending a DataFrame *)

\* A DataFrame: its column labels and its rows, each a value per column.
DataFrame(columns, rows) == [columns |-> columns, rows |-> rows]
NoDf == DataFrame({}, <<>>)

\* df.dtypes of one column: integers give int64, integers with missing
\* values become float64 (NaN), a column without rows or with anything else
\* in it (strings, only None) is object.
df_dtype(df, c) ==
    LET cells == {df.rows[n][c] : n \in DOMAIN df.rows}
    IN  IF cells = {} THEN "object"
        ELSE IF \A v \in cells : v.t = "int" THEN "int64"
        ELSE IF \A v \in cells : v.t = "bool" THEN "bool"
        ELSE IF /\ \A v \in cells : v.t \in {"int", "float", "NoneType"}
                /\ \E v \in cells : v.t \in {"int", "float"}
        THEN "float64"
        ELSE "object"

MsgDfColumnsMatch   == "DataFrame columns match database table columns."
MsgDfColumnsNoMatch == "DataFrame columns do not match database table columns."
MsgDfTypesMatch     == "DataFrame types match database table types"
MsgDfTypesNoMatch   == "DataFrame types do not match database table types"
MsgDfAppended       == "DataFrame appended to database"

\* DatabaseManager._df_columns_match: "ok" or the exception raised
_df_columns_match(df) ==
    IF df.columns \subseteq get_column_names THEN "ok" ELSE "ValueError"

\* DatabaseManager._df_types_match: "ok" or the exception raised
_df_types_match(df) ==
    IF \A c \in df.columns :
           /\ c \in DOMAIN get_column_types
           /\ map_dtype_to_sql(df_dtype(df, c)) = get_column_types[c]
    THEN "ok" ELSE "TypeError"

\* DatabaseManager._df_compatible: columns first, then types
_df_compatible(df) ==
    IF _df_columns_match(df) # "ok" THEN _df_columns_match(df)
    ELSE _df_types_match(df)

\* What _df_compatible logs
df_validation_log(df) ==
    IF _df_columns_match(df) # "ok" THEN <<Log("error", MsgDfColumnsNoMatch)>>
    ELSE IF _df_types_match(df) # "ok"
    THEN <<Log("debug", MsgDfColumnsMatch), Log("error", MsgDfTypesNoMatch)>>
    ELSE <<Log("debug", MsgDfColumnsMatch), Log("debug", MsgDfTypesMatch)>>

\* The INSERTs of df.to_sql, row after row in one transaction: they stop at
\* the first row that violates a constraint.
RECURSIVE insert_rows(_, _)
insert_rows(table, rows) ==
    IF rows = <<>> THEN [ok |-> TRUE, rows |-> table]
    ELSE IF violates_constraints(new_item(Head(rows), table), table)
    THEN [ok |-> FALSE, rows |-> table]
    ELSE insert_rows(table \cup {new_item(Head(rows), table)}, Tail(rows))

\* A mutation of to_sql: the rows inserted before the failing one are kept.
to_sql_partial(table, df) == insert_rows(table, df.rows)

\* df.to_sql(table_name, engine, if_exists="append", index=False): pandas
\* writes through a connection of its own and commits, or rolls its
\* transaction back when an INSERT fails.
to_sql(table, df) ==
    LET inserted_rows == insert_rows(table, df.rows)
    IN  IF inserted_rows.ok THEN inserted_rows
        ELSE [ok |-> FALSE, rows |-> table]

\* DatabaseManager.append_dataframe(df). An IntegrityError leaves to_sql,
\* which is called before the try block: nothing is logged. The file holds
\* what to_sql left in it; the session has nothing to flush and its next
\* read sees the file's rows.
append_dataframe(S, df) ==
    LET written == to_sql(S.db, df)
        after == [S EXCEPT !.db = written.rows, !.view = written.rows]
    IN  IF _df_compatible(df) # "ok"
        THEN Outcome(S, _df_compatible(df), ReturnsNone, df_validation_log(df))
        ELSE IF ~written.ok
        THEN Outcome(after, "IntegrityError", ReturnsNone,
                     df_validation_log(df))
        ELSE Outcome(commit(after), "none", ReturnsNone,
                     df_validation_log(df) \o <<Log("info", MsgDfAppended)>>)

-----------------------------------------------------------------------------
(* DatabaseManager: reading *)

MsgFetchingAll  == "Fetching all items from database."
MsgAllRetrieved == "All items retrieved from database"
MsgNoItems      == "No items found in database"
MsgFoundById    == "Item found in database by ID"
MsgNotFoundById == "Item not found in database by ID"
MsgFoundByAttr  == "Items found in database by using attributes."
MsgNoneByAttr   == "No items found in database by using attributes."

\* A mutation of fetch_all_items: only the first row is returned.
fetch_all_items_first(S) ==
    IF S.view # {}
    THEN Outcome(S, "none", ReturnsList(<<rowid_order(S.view)[1]>>),
                 <<Log("debug", MsgFetchingAll), Log("debug", MsgAllRetrieved)>>)
    ELSE Outcome(S, "none", ReturnsNone,
                 <<Log("debug", MsgFetchingAll), Log("warning", MsgNoItems)>>)

\* DatabaseManager.fetch_all_items()
fetch_all_items(S) ==
    LET result == rowid_order(S.view)
    IN  IF result # <<>>
        THEN Outcome(S, "none", ReturnsList(result),
                     <<Log("debug", MsgFetchingAll),
                       Log("debug", MsgAllRetrieved)>>)
        ELSE Outcome(S, "none", ReturnsNone,
                     <<Log("debug", MsgFetchingAll),
                       Log("warning", MsgNoItems)>>)

\* A mutation of first_by_id: the filter on the id is left out.
first_of_all(rows, item_id) ==
    IF rows = {} THEN {} ELSE {rowid_order(rows)[1]}

\* session.query(table_class).filter_by(id=item_id).first():
\* the set holding the first matching row, empty when there is none
first_by_id(rows, item_id) ==
    LET found == rowid_order(filter_by(rows, [id |-> item_id]))
    IN  IF found = <<>> THEN {} ELSE {found[1]}

\* DatabaseManager.fetch_item_by_id(item_id)
fetch_item_by_id(S, item_id) ==
    LET item == first_by_id(S.view, item_id)
    IN  IF item # {}
        THEN Outcome(S, "none", ReturnsItem(CHOOSE r \in item : TRUE),
                     <<Log("debug", MsgFoundById)>>)
        ELSE Outcome(S, "none", ReturnsNone,
                     <<Log("warning", MsgNotFoundById)>>)

\* bool(query): a Query object defines neither __bool__ nor __len__, so the
\* test `if query:` is true whatever the query would return.
query_is_truthy(rows) == TRUE

\* A mutation of fetch_items_by_attribute: the keywords are not applied.
fetch_items_by_attribute_all(S, kwargs) ==
    Outcome(S, "none", ReturnsList(rowid_order(S.view)),
            <<Log("debug", MsgFoundByAttr)>>)

\* DatabaseManager.fetch_items_by_attribute(**kwargs)
fetch_items_by_attribute(S, kwargs) ==
    LET query == filter_by(S.view, kwargs)
    IN  IF query_is_truthy(query)
        THEN Outcome(S, "none", ReturnsList(rowid_order(query)),
                     <<Log("debug", MsgFoundByAttr)>>)
        ELSE Outcome(S, "none", ReturnsNone,
                     <<Log("warning", MsgNoneByAttr)>>)

-----------------------------------------------------------------------------
(* DatabaseManager.filter_items: the filter specification *)

\* A spec is a bare literal or an (operator, value) tuple; the value of the
\* "in" operator is a collection.
Literal(v)   == [tuple |-> FALSE, op |-> "==", value |-> v, values |-> {}]
Op(op, v)    == [tuple |-> TRUE, op |-> op, value |-> v, values |-> {}]
OpIn(vs)     == [tuple |-> TRUE, op |-> "in", value |-> None, values |-> vs]
\* filters is a dict: its entries in the order the caller wrote them, no
\* column name twice.
Entry(column, spec) == [column |-> column, spec |-> spec]
EmptyFilters == <<>>

\* The keys of DatabaseManager._OPERATOR_MAP
_OPERATOR_MAP == {"==", "!=", ">", ">=", "<", "<=", "in", "like"}

\* SQLite's LIKE for the patterns used here: % matches any text, _ any one
\* character (every text of the model is one character), other patterns
\* match the equal text.
like(text, pattern) == pattern \in {"%", "_", text}

\* _OPERATOR_MAP[op](column, value) evaluated by SQLite on one row: true only
\* when the comparison is true (a comparison with NULL is not); == None and
\* != None are rendered IS NULL and IS NOT NULL.
condition(op, cell, spec) ==
    CASE op = "==" -> IF spec.value = None THEN cell = None
                      ELSE cell # None /\ cell = spec.value
      [] op = "!=" -> IF spec.value = None THEN cell # None
                      ELSE cell # None /\ cell # spec.value
      [] op = ">"  -> cell # None /\ spec.value # None /\ cell.i > spec.value.i
      [] op = ">=" -> cell # None /\ spec.value # None /\ cell.i >= spec.value.i
      [] op = "<"  -> cell # None /\ spec.value # None /\ cell.i < spec.value.i
      [] op = "<=" -> cell # None /\ spec.value # None /\ cell.i <= spec.value.i
      [] op = "in" -> cell # None /\ cell \in (spec.values \ {None})
      [] op = "like" -> cell # None /\ spec.value # None
                        /\ like(cell.s, spec.value.s)

\* hasattr(self.table_class, column_name) is true of the columns and of
\* everything else the class defines: BaseTable's methods and properties.
table_class_attributes ==
    get_column_names \cup {"get_column_names", "get_column_types",
                           "column_names", "column_types"}

\* One turn of the loop over filters.items(): the exception it raises, or
\* "none". A name that is no attribute raises AttributeError, an operator
\* that is no key of _OPERATOR_MAP ValueError. An attribute that is not a
\* column is a plain Python object: == and != compare it as Python does,
\* an ordering raises TypeError, and it has no in_ or like (AttributeError).
build_clause(entry) ==
    IF entry.column \notin table_class_attributes THEN "AttributeError"
    ELSE IF entry.spec.op \notin _OPERATOR_MAP THEN "ValueError"
    ELSE IF entry.column \in get_column_names THEN "none"
    ELSE IF entry.spec.op \in {"==", "!="} THEN "none"
    ELSE IF entry.spec.op \in {"in", "like"} THEN "AttributeError"
    ELSE "TypeError"

\* The loop over filters.items() stops at the first entry that raises:
\* that entry, or none.
RECURSIVE raising_entry(_)
raising_entry(filters) ==
    IF filters = <<>> THEN <<>>
    ELSE IF build_clause(Head(filters)) # "none" THEN <<Head(filters)>>
    ELSE raising_entry(Tail(filters))

build_clauses(filters) ==
    IF raising_entry(filters) = <<>> THEN "none"
    ELSE build_clause(raising_entry(filters)[1])

\* The clause of one entry on one row: a column's condition is evaluated by
\* SQLite; a non-column attribute never equals the value, so its clause is
\* the constant False for == and True for !=.
clause_holds(entry, row) ==
    IF entry.column \in get_column_names
    THEN condition(entry.spec.op, row[entry.column], entry.spec)
    ELSE entry.spec.op = "!="

\* A mutation of where: with no clause at all no row is selected.
where_nothing_unfiltered(rows, filters, use_or) ==
    IF use_or
    THEN {r \in rows : \E n \in DOMAIN filters : clause_holds(filters[n], r)}
    ELSE {r \in rows : filters # <<>>
                       /\ \A n \in DOMAIN filters : clause_holds(filters[n], r)}

\* A mutation of where: use_or is not looked at, the clauses are always
\* combined with AND.
where_and_only(rows, filters, use_or) ==
    {r \in rows : \A n \in DOMAIN filters : clause_holds(filters[n], r)}

\* query.filter(and_(*clauses)) / query.filter(or_(*clauses)); with no clause
\* at all neither adds a WHERE and every row is selected.
where(rows, filters, use_or) ==
    IF filters = <<>> THEN rows
    ELSE IF use_or
    THEN {r \in rows : \E n \in DOMAIN filters : clause_holds(filters[n], r)}
    ELSE {r \in rows : \A n \in DOMAIN filters : clause_holds(filters[n], r)}

MsgApplying     == "Applying filters to database."
MsgBadColumn    == "Invalid column in filters"
MsgBadOperator  == "Unsupported operator in filters"
MsgApplied      == "Filters successfully applied to database with filters"
MsgNoneFiltered == "No items found in database after applying filters."

\* What the loop logs before it raises on an entry
clause_log(entry) ==
    IF entry.column \notin table_class_attributes
    THEN <<Log("error", MsgBadColumn)>>
    ELSE IF entry.spec.op \notin _OPERATOR_MAP
    THEN <<Log("error", MsgBadOperator)>>
    ELSE <<>>

\* DatabaseManager.filter_items(filters, use_or)
filter_items(S, filters, use_or) ==
    IF build_clauses(filters) # "none"
    THEN Outcome(S, build_clauses(filters), ReturnsNone,
                 <<Log("debug", MsgApplying)>>
                 \o clause_log(raising_entry(filters)[1]))
    ELSE LET result == rowid_order(where(S.view, filters, use_or))
         IN  IF result # <<>>
             THEN Outcome(S, "none", ReturnsList(result),
                          <<Log("debug", MsgApplying),
                            Log("debug", MsgApplied)>>)
             ELSE Outcome(S, "none", ReturnsNone,
                          <<Log("debug", MsgApplying), Log("debug", MsgApplied),
                            Log("warning", MsgNoneFiltered)>>)

-----------------------------------------------------------------------------
(* DatabaseManager: updating *)

MsgUpdating     == "Updating item in database."
MsgUnableUpdate == "Unable to update item, value already exists in database."
MsgUpdated      == "Item updated in database with ID"

\* A mutation of set_attributes: the age is cleared unless it is passed.
set_attributes_clearing(item, kwargs) ==
    [c \in DOMAIN item |->
        IF c \in DOMAIN kwargs THEN kwargs[c]
        ELSE IF c = "age" THEN None ELSE item[c]]

\* setattr(item, key, value) for every keyword that is an attribute of item
set_attributes(item, kwargs) ==
    [c \in DOMAIN item |-> IF c \in DOMAIN kwargs THEN kwargs[c] ELSE item[c]]

\* DatabaseManager.update_item(item_id, **kwargs)
update_item(S, item_id, kwargs) ==
    LET item == first_by_id(S.view, item_id)
        fl == IF item = {} THEN [ok |-> TRUE, S |-> S]
              ELSE LET it == CHOOSE r \in item : TRUE
                   IN  flush_update(S, it, set_attributes(it, kwargs))
        entries == <<Log("debug", MsgUpdating)>> \o validation_log(kwargs, FALSE)
    IN  IF _dict_columns_match(kwargs) # "ok"
        THEN \* _dict_columns_match raises before the try block
             Outcome(S, _dict_columns_match(kwargs), ReturnsNone, entries)
        ELSE IF ~S.active
        THEN \* the query for the item raises before the try block
             Outcome(S, "PendingRollbackError", ReturnsNone, entries)
        ELSE IF fl.ok
        THEN finally_commit(fl.S, "none", entries, Log("info", MsgUpdated))
        ELSE \* except IntegrityError: rollback, log, re-raise; then finally
             finally_commit(rollback(fl.S), "IntegrityError",
                            entries \o <<Log("error", MsgUnableUpdate)>>,
                            Log("info", MsgUpdated))

-----------------------------------------------------------------------------
(* DatabaseManager: deleting *)

MsgDeletedById     == "Item deleted from database with ID"
MsgNotFoundDelete  == "Item not found in database with ID"
MsgDeletingByAttr  == "Deleting items from database with given attributes"
MsgDeletedByAttr   == "Items deleted from database with given attributes."
MsgNoneDeleteAttr  == "No items found in database with given attributes."
MsgDeletingFilter  == "Deleting items from database using filters."
MsgDeletedFilter   == "Items deleted from database using filters."
MsgNoneDeleteFilter == "No items found in database given with filters."
MsgCleared         == "All items deleted from database table"

\* DatabaseManager.delete_item(item_id)
delete_item(S, item_id) ==
    LET item == first_by_id(S.view, item_id)
    IN  IF item # {}
        THEN Outcome(commit(flush_delete(S, item)), "none", ReturnsNone,
                     <<Log("info", MsgDeletedById)>>)
        ELSE Outcome(S, "none", ReturnsNone,
                     <<Log("warning", MsgNotFoundDelete)>>)

\* DatabaseManager.delete_items_by_attribute(**kwargs)
delete_items_by_attribute(S, kwargs) ==
    LET query == filter_by(S.view, kwargs)
    IN  IF query_is_truthy(query)
        THEN Outcome(commit(flush_delete(S, query)), "none", ReturnsNone,
                     <<Log("debug", MsgDeletingByAttr),
                       Log("info", MsgDeletedByAttr)>>)
        ELSE Outcome(S, "none", ReturnsNone,
                     <<Log("debug", MsgDeletingByAttr),
                       Log("warning", MsgNoneDeleteAttr)>>)

\* The set of the rows of a sequence
Range(seq) == {seq[n] : n \in 1..Len(seq)}

\* DatabaseManager.delete_items_by_filter(filters, use_or)
delete_items_by_filter(S, filters, use_or) ==
    LET found == filter_items(S, filters, use_or)
        items_to_delete == found.ret
    IN  IF found.raised # "none"
        THEN Outcome(S, found.raised, ReturnsNone,
                     <<Log("debug", MsgDeletingFilter)>> \o found.log)
        ELSE IF items_to_delete # ReturnsNone
        THEN Outcome(commit(flush_delete(S, Range(items_to_delete.items))),
                     "none", ReturnsNone,
                     <<Log("debug", MsgDeletingFilter)>> \o found.log
                         \o <<Log("info", MsgDeletedFilter)>>)
        ELSE Outcome(S, "none", ReturnsNone,
                     <<Log("debug", MsgDeletingFilter)>> \o found.log
                         \o <<Log("warning", MsgNoneDeleteFilter)>>)

\* DatabaseManager.clear_table()
clear_table(S) ==
    Outcome(commit(flush_delete(S, S.view)), "none", ReturnsNone,
            <<Log("info", MsgCleared)>>)

-----------------------------------------------------------------------------
(* DatabaseManager: the session *)

MsgSessionStarted == "DatabaseManager session started with table"
MsgSessionEnded   == "DatabaseManager session ended with table"

\* DatabaseManager.start_session(): a new engine and a new session take the
\* place of the ones the manager holds; nothing closes the session replaced.
\* M is <<sessions created and not closed, whether self.session is open>>.
start_session(M) == <<M[1] + 1, TRUE>>

\* DatabaseManager.end_session(): self.session.close(), which does nothing
\* more on a session already closed, and engine.dispose().
end_session(M) == IF M[2] THEN <<M[1] - 1, FALSE>> ELSE M

-----------------------------------------------------------------------------
(* utils and DatabaseFile *)

\* File names are texts, sequences of characters, or values of other types.
Text(chars)  == [t |-> "str", chars |-> chars]
Bytes(chars) == [t |-> "bytes", chars |-> chars]
Number       == [t |-> "int", chars |-> <<>>]

\* str.lower() on the characters used
lower(chars) ==
    [n \in DOMAIN chars |->
        CASE chars[n] = "D" -> "d"
          [] chars[n] = "B" -> "b"
          [] chars[n] = "T" -> "t"
          [] OTHER -> chars[n]]

\* str.endswith(suffix)
endswith(chars, suffix) ==
    /\ Len(chars) >= Len(suffix)
    /\ SubSeq(chars, Len(chars) - Len(suffix) + 1, Len(chars)) = suffix

\* utils.is_db_file(filename): "True" or "False", or the exception that
\* leaves it. A value without lower() raises AttributeError, which is caught;
\* bytes have lower(), and their endswith(".db") raises TypeError.
is_db_file(filename) ==
    CASE filename.t = "str" ->
             IF endswith(lower(filename.chars), <<".", "d", "b">>)
             THEN "True" ELSE "False"
      [] filename.t = "bytes" -> "TypeError"
      [] OTHER -> "False"

\* utils.check_db_exists(db_filename, db_dir): os.listdir(db_dir) raises
\* FileNotFoundError when there is no such directory; the names are
\* compared with ==.
check_db_exists(disk, db_filename, db_dir) ==
    IF db_dir \notin disk.dirs THEN "FileNotFoundError"
    ELSE IF \E f \in disk.fs : f.dir = db_dir /\ f.name = db_filename.chars
    THEN "True" ELSE "False"

\* os.path.join(directory, name) and os.path.abspath(path)
join(directory, name) == [root |-> "", dir |-> directory, name |-> name.chars]
abspath(path) == [path EXCEPT !.root = "cwd"]

\* The file a path names, if it is on the disk
file_at(disk, path) == {f \in disk.fs : f.dir = path.dir /\ f.name = path.name}

NoFile == [name |-> Number, directory |-> "",
           file_path |-> [root |-> "", dir |-> "", name |-> <<>>],
           abspath |-> [root |-> "", dir |-> "", name |-> <<>>]]

\* The outcome of a DatabaseFile call: the object and the disk afterwards,
\* the exception raised ("none" when it returns) and the value returned.
FileOutcome(obj, disk, exc, value) ==
    [file |-> obj, disk |-> disk, raised |-> exc, ret |-> value]

\* DatabaseFile.__init__(name, directory)
DatabaseFile(disk, name, directory) ==
    IF is_db_file(name) = "TypeError"
    THEN FileOutcome(NoFile, disk, "TypeError", "None")
    ELSE IF is_db_file(name) = "False"
    THEN FileOutcome(NoFile, disk, "ValueError", "None")
    ELSE FileOutcome([name |-> name, directory |-> directory,
                      file_path |-> join(directory, name),
                      abspath |-> abspath(join(directory, name))],
                     [disk EXCEPT !.dirs = disk.dirs \cup {directory}],
                     "none", "None")

\* DatabaseFile.exists()
exists(obj, disk) ==
    IF check_db_exists(disk, obj.name, obj.directory) = "FileNotFoundError"
    THEN FileOutcome(obj, disk, "FileNotFoundError", "None")
    ELSE FileOutcome(obj, disk, "none",
                     check_db_exists(disk, obj.name, obj.directory))

\* A mutation of create: the file is written anew whether it exists or not.
create_always(obj, disk) ==
    FileOutcome(obj,
                [disk EXCEPT !.fs = (disk.fs \ file_at(disk, obj.file_path))
                                    \cup {[dir |-> obj.file_path.dir,
                                           name |-> obj.file_path.name,
                                           content |-> "empty database"]}],
                "none", "None")

\* DatabaseFile.create(): sqlite3.connect(file_path).close() leaves an empty
\* file where there was none.
create(obj, disk) ==
    IF exists(obj, disk).raised # "none" THEN exists(obj, disk)
    ELSE IF exists(obj, disk).ret = "True"
    THEN FileOutcome(obj, disk, "none", "None")
    ELSE FileOutcome(obj,
                     [disk EXCEPT !.fs = disk.fs
                                    \cup {[dir |-> obj.file_path.dir,
                                           name |-> obj.file_path.name,
                                           content |-> "empty database"]}],
                     "none", "None")

\* A mutation of rename: the file leaves its place and arrives nowhere.
rename_lost(disk, path, new_path) ==
    [disk EXCEPT !.fs = disk.fs \ file_at(disk, path)]

\* A mutation of rename: the file is copied, the original stays.
rename_copy(disk, path, new_path) ==
    [disk EXCEPT !.fs = disk.fs
                        \cup {[f EXCEPT !.dir = new_path.dir,
                                        !.name = new_path.name]
                                  : f \in file_at(disk, path)}]

\* os.rename(file_path, new_path)
rename(disk, path, new_path) ==
    [disk EXCEPT !.fs = (disk.fs \ (file_at(disk, path) \cup file_at(disk, new_path)))
                        \cup {[f EXCEPT !.dir = new_path.dir,
                                        !.name = new_path.name]
                                  : f \in file_at(disk, path)}]

\* A mutation of move: directory is updated, file_path and abspath are not.
move_stale(obj, disk, target_directory) ==
    LET target_exists == check_db_exists(disk, obj.name, target_directory)
    IN  IF target_exists = "FileNotFoundError"
        THEN FileOutcome(obj, disk, "FileNotFoundError", "None")
        ELSE IF target_exists = "False" /\ exists(obj, disk).ret = "True"
        THEN FileOutcome([obj EXCEPT !.directory = target_directory],
                         rename(disk, obj.file_path,
                                join(target_directory, obj.name)),
                         "none", "None")
        ELSE FileOutcome(obj, disk, "none", "None")

\* A mutation of move: the target directory is not looked at first.
move_over(obj, disk, target_directory) ==
    IF exists(obj, disk).ret = "True"
    THEN FileOutcome([obj EXCEPT
                         !.file_path = join(target_directory, obj.name),
                         !.abspath = abspath(join(target_directory, obj.name)),
                         !.directory = target_directory],
                     rename(disk, obj.file_path,
                            join(target_directory, obj.name)),
                     "none", "None")
    ELSE FileOutcome(obj, disk, "none", "None")

\* DatabaseFile.move(target_directory)
move(obj, disk, target_directory) ==
    LET target_exists == check_db_exists(disk, obj.name, target_directory)
        new_path == join(target_directory, obj.name)
    IN  IF target_exists = "FileNotFoundError"
        THEN FileOutcome(obj, disk, "FileNotFoundError", "None")
        ELSE IF target_exists = "True"
        THEN FileOutcome(obj, disk, "none", "None")
        ELSE IF exists(obj, disk).raised # "none" THEN exists(obj, disk)
        ELSE IF exists(obj, disk).ret = "True"
        THEN FileOutcome([obj EXCEPT !.file_path = new_path,
                                     !.abspath = abspath(new_path),
                                     !.directory = target_directory],
                         rename(disk, obj.file_path, new_path),
                         "none", "None")
        ELSE FileOutcome(obj, disk, "none", "None")

\* A mutation of delete: the object forgets where the file was.
delete_and_forget(obj, disk) ==
    FileOutcome([obj EXCEPT !.directory = ""],
                [disk EXCEPT !.fs = disk.fs \ file_at(disk, obj.abspath)],
                "none", "None")

\* DatabaseFile.delete(): os.remove(abspath) if os.path.exists(abspath)
delete(obj, disk) ==
    IF file_at(disk, obj.abspath) # {}
    THEN FileOutcome(obj,
                     [disk EXCEPT !.fs = disk.fs \ file_at(disk, obj.abspath)],
                     "none", "None")
    ELSE FileOutcome(obj, disk, "none", "None")

-----------------------------------------------------------------------------
(* The state: one manager, its session and the calls made on it *)

VARIABLES
    db_rows,       \* the rows committed to the database file
    session_rows,  \* the rows the manager's session sees
    session_active, \* whether the session can run a statement (see S.active)
    inserted,      \* history: the ids of the stored rows, oldest insert first
    n_added,       \* history: how many add_item calls stored a record
    failures,      \* history: whether the call before the last one, and the
                   \* last one, was an add_item or update_item that raised
                   \* ValueError, TypeError or IntegrityError
    call,          \* the call that has just ended (operation and arguments),
                   \* NoCall once its caller has taken the result
    pre,           \* the rows stored when the last call was made
    raised,        \* the exception the last call raised, "none" if it returned
    ret,           \* the value the last call returned
    log,           \* the log entries the last call emitted
    open_sessions, \* how many sessions the manager created and has not closed
    session_open,  \* whether self.session, the latest of them, is not closed
    file,          \* the DatabaseFile object (NoFile before a construction)
    fs,            \* the files on disk: directory, name and content of each
    dirs,          \* the directories on disk
    file_call,     \* the last DatabaseFile call, its arguments and outcome
    file_pre,      \* the DatabaseFile object before the last call
    fs_pre         \* the files on disk before the last call

manager_vars ==
    <<db_rows, session_rows, session_active, inserted, n_added, failures,
      call, pre, raised, ret, log>>
session_vars == <<open_sessions, session_open>>
file_vars == <<file, fs, dirs, file_call, file_pre, fs_pre>>
vars == <<manager_vars, session_vars, file_vars>>

Session == [db |-> db_rows, view |-> session_rows, active |-> session_active]

Call(op, item_id, kwargs, filters, use_or, df, entries) ==
    [op |-> op, item_id |-> item_id, kwargs |-> kwargs,
     filters |-> filters, use_or |-> use_or, df |-> df, entries |-> entries]

\* A DatabaseFile call: the operation, the name or None, the directory.
FileCall(op, name, directory, exc, value) ==
    [op |-> op, name |-> name, directory |-> directory,
     raised |-> exc, ret |-> value]
NoFileCall == FileCall("", Number, "", "none", "None")

\* The disk as the DatabaseFile calls see it
Disk == [fs |-> fs, dirs |-> dirs]

\* No call is in hand: the manager waits for the next one.
NoCall == Call("", None, EmptyKw, EmptyFilters, FALSE, NoDf, NoEntries)

(* The inputs explored.  Under Spec the calls take the full input sets and
   the history variables stay empty; under SpecHistory the history of the
   inserts is recorded and the calls take the smaller Recorded sets. *)

Ids    == 1..MaxId
Names  == {"a", "b"}
Ages   == {25, 30}
Emails == {"x"}

\* Entries of the right shape, with and without the optional columns and an
\* explicit id
EntriesNamed(names) ==
    {Kw([id |-> i, name |-> n, age |-> a, email |-> e]) :
        i \in {Absent} \cup {PyInt(k) : k \in Ids},
        n \in {PyStr(x) : x \in names},
        a \in {Absent} \cup {PyInt(k) : k \in Ages},
        e \in {Absent} \cup {PyStr(x) : x \in Emails}}

\* Entries the validation or the table's constraints reject, and NULL passed
\* explicitly
OddEntries ==
    { EmptyKw,
      [age |-> PyInt(30)],
      [name |-> None, age |-> PyInt(30)],
      [name |-> PyStr("a"), email |-> None],
      [name |-> PyStr("a"), age |-> None],
      [name |-> PyStr("a"), age |-> PyFloat(30)],
      [name |-> PyInt(7), email |-> PyStr("x")],
      [name |-> PyStr("a"), email |-> PyStr("x"), nickname |-> PyStr("z")],
      [name |-> PyInt(7), nickname |-> PyStr("z")] }

AddInputs == EntriesNamed(Names) \cup OddEntries
RecordedAddInputs ==
    EntriesNamed({"a"})
        \cup { [name |-> PyStr("a"), age |-> None],
               [name |-> PyStr("a"), nickname |-> PyStr("z")] }

UpdateInputs ==
    { EmptyKw,
      [name |-> PyStr("a")], [name |-> PyStr("b")], [name |-> None],
      [age |-> PyInt(25)], [age |-> None],
      [email |-> PyStr("x")], [email |-> None],
      [name |-> PyStr("b"), email |-> PyStr("x")],
      [nickname |-> PyStr("z")],
      [name |-> PyStr("b"), nickname |-> PyStr("z")] }
    \cup {[id |-> PyInt(k)] : k \in Ids}
RecordedUpdateInputs ==
    {[age |-> PyInt(25)], [nickname |-> PyStr("z")]}
        \cup {[id |-> PyInt(k)] : k \in Ids}

AttributeInputs ==
    { EmptyKw,
      [age |-> PyInt(25)], [age |-> PyInt(30)], [age |-> None],
      [name |-> PyStr("a")], [email |-> PyStr("x")],
      [age |-> PyInt(30), name |-> PyStr("a")] }
RecordedAttributeInputs ==
    { EmptyKw, [age |-> PyInt(25)], [age |-> PyInt(30)], [age |-> None],
      [name |-> PyStr("a")], [email |-> None] }

FilterInputs ==
    { EmptyFilters,
      <<Entry("age", Literal(PyInt(30)))>>,
      <<Entry("age", Op(">", PyInt(25)))>>,
      <<Entry("age", Op("<=", PyInt(25)))>>,
      <<Entry("age", Op("!=", PyInt(30)))>>,
      <<Entry("age", OpIn({PyInt(25), PyInt(30)}))>>,
      <<Entry("email", Op("==", None))>>,
      <<Entry("name", Op("like", PyStr("%")))>>,
      <<Entry("name", Literal(PyStr("a"))), Entry("age", Op(">=", PyInt(30)))>>,
      <<Entry("nickname", Literal(PyStr("z")))>>,
      <<Entry("age", Op("~", PyInt(30)))>>,
      <<Entry("age", Op("~", PyInt(30))), Entry("nickname", Literal(PyStr("z")))>>,
      <<Entry("column_names", Literal(PyInt(30)))>>,
      <<Entry("column_names", Op("!=", PyInt(30)))>>,
      <<Entry("column_names", Op(">", PyInt(30)))>>,
      <<Entry("column_names", Op("like", PyStr("%")))>> }
RecordedFilterInputs == { <<Entry("age", Op("<", PyInt(30)))>> }

DataFrames ==
    { DataFrame({"name", "email"}, <<[name |-> PyStr("a"), email |-> PyStr("x")]>>),
      DataFrame({"name", "age"}, <<[name |-> PyStr("a"), age |-> PyInt(30)],
                                   [name |-> PyStr("b"), age |-> PyInt(25)]>>),
      DataFrame({"name", "email"}, <<[name |-> PyStr("a"), email |-> None],
                                     [name |-> PyStr("b"), email |-> PyStr("x")]>>),
      DataFrame({"id", "name"}, <<[id |-> PyInt(2), name |-> PyStr("a")],
                                  [id |-> PyInt(1), name |-> PyStr("b")]>>),
      DataFrame({"name", "email"}, <<[name |-> PyStr("a"), email |-> PyStr("x")],
                                     [name |-> PyStr("b"), email |-> PyStr("x")]>>),
      DataFrame({"age"}, <<[age |-> PyInt(30)]>>),
      DataFrame({"name", "email"}, <<>>),
      DataFrame({"name", "nickname"},
                <<[name |-> PyStr("a"), nickname |-> PyStr("z")]>>),
      DataFrame({"name", "age"}, <<[name |-> PyStr("a"), age |-> PyStr("z")]>>),
      DataFrame({"name", "age"}, <<[name |-> PyStr("a"), age |-> PyInt(30)],
                                   [name |-> PyStr("b"), age |-> None]>>) }
RecordedDataFrames ==
    { DataFrame({"name", "age"}, <<[name |-> PyStr("a"), age |-> PyInt(30)]>>) }

\* Batches for add_multiple_items: accepted ones, and ones whose first, second
\* or last entry is rejected for its keys, its types or a unique value.
Batches ==
    { NoEntries,
      <<[name |-> PyStr("a")]>>,
      <<[name |-> PyStr("a")], [name |-> PyStr("b"), age |-> PyInt(25)]>>,
      <<[name |-> PyStr("b"), email |-> PyStr("x")],
        [name |-> PyStr("a"), email |-> PyStr("x")]>>,
      <<[name |-> PyStr("a")],
        [name |-> PyStr("a"), nickname |-> PyStr("z")]>>,
      <<[name |-> PyStr("a")], [name |-> PyStr("a"), age |-> PyFloat(30)],
        [name |-> PyStr("b")]>>,
      <<[name |-> PyStr("a"), nickname |-> PyStr("z")], [name |-> PyStr("a")]>>,
      <<[id |-> PyInt(2), name |-> PyStr("a")],
        [id |-> PyInt(1), name |-> PyStr("b")]>>,
      <<[id |-> PyInt(1), name |-> PyStr("a")],
        [id |-> PyInt(1), name |-> PyStr("b")]>>,
      <<[name |-> PyStr("a")], [age |-> PyInt(30)], [name |-> PyStr("b")]>> }
RecordedBatches ==
    { <<[name |-> PyStr("a")]>>,
      <<[name |-> PyStr("a")], [name |-> PyStr("a"), age |-> PyInt(25)]>> }

\* A table class with a column of each type map_dtype_to_sql can infer, and
\* dictionaries giving one or two of its columns a value of each kind.
TypedTable ==
    [count |-> "Integer", ratio |-> "Float", flag |-> "Boolean",
     seen |-> "DateTime", label |-> "String"]
TypedValues ==
    {PyInt(1), PyFloat(1), PyBool(TRUE), Timestamp, PyStr("a"), None,
     PyBytes, Timedelta}
TypedInputs ==
    {[k \in {c} |-> v] : c \in DOMAIN TypedTable, v \in TypedValues}
        \cup {[k \in {c, d} |-> IF k = c THEN v ELSE w] :
                  c \in {"count", "ratio"}, d \in {"seen", "label"},
                  v \in TypedValues, w \in TypedValues}

\* File names, directories, and what is on the disk at the start: the two
\* directories of the tests and a file of another program in one of them.
FileNames ==
    { Text(<<"t", ".", "d", "b">>), Text(<<"T", ".", "D", "B">>),
      Text(<<"t", ".", "d", "b", "1">>),
      Text(<<".", "d", "b", "s">>), Text(<<>>),
      Bytes(<<"t", ".", "d", "b">>), Number }
Directories == {"data", "archive", "new"}
FoundDirs == {"data", "archive"}
FoundFiles ==
    {[dir |-> "archive", name |-> <<"t", ".", "d", "b">>, content |-> "other"]}

\* The ids of seq that are still ids of rows, in the same order
RECURSIVE keep_ids(_, _)
keep_ids(seq, rows) ==
    IF seq = <<>> THEN <<>>
    ELSE IF \E r \in rows : r.id.i = Head(seq)
    THEN <<Head(seq)>> \o keep_ids(Tail(seq), rows)
    ELSE keep_ids(Tail(seq), rows)

Init ==
    /\ db_rows = {}
    /\ session_rows = {}
    /\ session_active = TRUE
    /\ inserted = <<>>
    /\ n_added = 0
    /\ failures = [before |-> FALSE, now |-> FALSE]
    /\ call = NoCall
    /\ pre = {}
    /\ raised = "none"
    /\ ret = ReturnsNone
    /\ log = <<>>
    /\ open_sessions = 1
    /\ session_open = TRUE
    /\ file = NoFile
    /\ fs = FoundFiles
    /\ dirs = FoundDirs
    /\ file_call = NoFileCall
    /\ file_pre = NoFile
    /\ fs_pre = FoundFiles

\* The history of this step: an updated row keeps its place under its new id,
\* deleted rows leave, an inserted row comes last; a storing add_item counts.
Recorded ==
    LET ids_after == {r.id.i : r \in session_rows'}
        new == session_rows' \ {r \in session_rows' :
                                   \E n \in DOMAIN inserted : inserted[n] = r.id.i}
    IN  /\ inserted' =
              IF call'.op = "update_item"
              THEN [n \in DOMAIN inserted |->
                       IF inserted[n] \in ids_after THEN inserted[n]
                       ELSE call'.kwargs.id.i]
              ELSE keep_ids(inserted, session_rows') \o rowid_order_ids(new)
        /\ n_added' =
              LET stored == Cardinality(session_rows') - Cardinality(session_rows)
              IN  IF call'.op \in {"add_item", "add_multiple_items"}
                  THEN IF n_added + stored <= MaxAdded
                       THEN n_added + stored ELSE MaxAdded + 1
                  ELSE n_added
        /\ failures' =
              [before |-> failures.now,
               now |-> /\ call'.op \in {"add_item", "update_item"}
                       /\ raised' \in {"ValueError", "TypeError",
                                       "IntegrityError"}]

History(h) == IF h THEN Recorded ELSE UNCHANGED <<inserted, n_added, failures>>

\* The call c is made on a manager that waits for one, and produces out.
Called(c, out) ==
    /\ call = NoCall
    /\ call' = c
    /\ pre' = session_rows
    /\ db_rows' = out.S.db
    /\ session_rows' = out.S.view
    /\ session_active' = out.S.active
    /\ raised' = out.raised
    /\ ret' = out.ret
    /\ log' = out.log
    /\ UNCHANGED <<session_vars, file_vars>>

\* add_item, add_multiple_items and update_item are modelled on any session;
\* the other calls are explored on a session that can run a statement.
AddItem(h) ==
    \E kwargs \in IF h THEN RecordedAddInputs ELSE AddInputs :
        /\ "id" \in DOMAIN kwargs \/ next_rowid(session_rows) <= MaxId
        /\ Called(Call("add_item", None, kwargs, EmptyFilters, FALSE, NoDf, NoEntries),
                  add_item(Session, kwargs))
        /\ History(h)

AddMultipleItems(h) ==
    \E entries \in IF h THEN RecordedBatches ELSE Batches :
        /\ Called(Call("add_multiple_items", None, EmptyKw, EmptyFilters, FALSE,
                       NoDf, entries),
                  add_multiple_items(Session, entries))
        /\ \A r \in session_rows' : r.id.i <= MaxId
        /\ History(h)

AppendDataframe(h) ==
    \E df \in IF h THEN RecordedDataFrames ELSE DataFrames :
        /\ Called(Call("append_dataframe", None, EmptyKw, EmptyFilters, FALSE, df, NoEntries),
                  append_dataframe(Session, df))
        /\ \A r \in session_rows' : r.id.i <= MaxId
        /\ session_active
        /\ History(h)

FetchAllItems(h) ==
    /\ Called(Call("fetch_all_items", None, EmptyKw, EmptyFilters, FALSE, NoDf, NoEntries),
              fetch_all_items(Session))
    /\ session_active
    /\ History(h)

FetchItemById(h) ==
    \E k \in Ids :
        /\ Called(Call("fetch_item_by_id", PyInt(k), EmptyKw, EmptyFilters, FALSE, NoDf, NoEntries),
                  fetch_item_by_id(Session, PyInt(k)))
        /\ session_active
        /\ History(h)

FetchItemsByAttribute(h) ==
    \E kwargs \in IF h THEN RecordedAttributeInputs ELSE AttributeInputs :
        /\ Called(Call("fetch_items_by_attribute", None, kwargs, EmptyFilters, FALSE, NoDf, NoEntries),
                  fetch_items_by_attribute(Session, kwargs))
        /\ session_active
        /\ History(h)

FilterItems(h) ==
    \E filters \in IF h THEN RecordedFilterInputs ELSE FilterInputs,
       use_or \in BOOLEAN :
        /\ Called(Call("filter_items", None, EmptyKw, filters, use_or, NoDf, NoEntries),
                  filter_items(Session, filters, use_or))
        /\ session_active
        /\ History(h)

UpdateItem(h) ==
    \E k \in Ids, kwargs \in IF h THEN RecordedUpdateInputs ELSE UpdateInputs :
        /\ Called(Call("update_item", PyInt(k), kwargs, EmptyFilters, FALSE, NoDf, NoEntries),
                  update_item(Session, PyInt(k), kwargs))
        /\ History(h)

DeleteItem(h) ==
    \E k \in Ids :
        /\ Called(Call("delete_item", PyInt(k), EmptyKw, EmptyFilters, FALSE, NoDf, NoEntries),
                  delete_item(Session, PyInt(k)))
        /\ session_active
        /\ History(h)

DeleteItemsByAttribute(h) ==
    \E kwargs \in IF h THEN RecordedAttributeInputs ELSE AttributeInputs :
        /\ Called(Call("delete_items_by_attribute", None, kwargs, EmptyFilters, FALSE, NoDf, NoEntries),
                  delete_items_by_attribute(Session, kwargs))
        /\ session_active
        /\ History(h)

DeleteItemsByFilter(h) ==
    \E filters \in IF h THEN RecordedFilterInputs ELSE FilterInputs,
       use_or \in BOOLEAN :
        /\ Called(Call("delete_items_by_filter", None, EmptyKw, filters, use_or, NoDf, NoEntries),
                  delete_items_by_filter(Session, filters, use_or))
        /\ session_active
        /\ History(h)

ClearTable(h) ==
    /\ Called(Call("clear_table", None, EmptyKw, EmptyFilters, FALSE, NoDf, NoEntries),
              clear_table(Session))
    /\ session_active
    /\ History(h)

\* DatabaseManager._dict_types_match(data) on a manager of TypedTable: it
\* returns True, or raises after logging, and does not touch the session.
DictTypesMatch ==
    \E data \in TypedInputs :
        LET check == dict_types_match_on(TypedTable, data)
        IN  Called(Call("_dict_types_match", None, data, EmptyFilters, FALSE,
                        NoDf, NoEntries),
                   Outcome(Session,
                           IF check = "ok" THEN "none" ELSE check,
                           IF check = "ok" THEN ReturnsTrue ELSE ReturnsNone,
                           CASE check = "ok" -> <<Log("debug", MsgTypesMatch)>>
                             [] check = "TypeError" ->
                                    <<Log("error", MsgTypesNoMatch)>>
                             [] OTHER -> <<>>))
           /\ UNCHANGED <<inserted, n_added, failures>>

\* The caller takes the result (or catches the exception) of the call that
\* ended; the stored rows stay as the call left them.
Return ==
    /\ call # NoCall
    /\ call' = NoCall
    /\ pre' = {}
    /\ raised' = "none"
    /\ ret' = ReturnsNone
    /\ log' = <<>>
    /\ UNCHANGED <<db_rows, session_rows, session_active>>
    /\ UNCHANGED <<inserted, n_added, failures>>
    /\ UNCHANGED <<session_vars, file_vars>>

\* start_session and end_session leave the stored rows alone.
SessionCalled(op, M, msg) ==
    /\ call = NoCall
    /\ call' = Call(op, None, EmptyKw, EmptyFilters, FALSE, NoDf, NoEntries)
    /\ pre' = session_rows
    /\ raised' = "none"
    /\ ret' = ReturnsNone
    /\ log' = <<Log("info", msg)>>
    /\ open_sessions' = M[1]
    /\ session_open' = M[2]
    /\ session_active' = TRUE
    /\ UNCHANGED <<db_rows, session_rows, inserted, n_added, failures>>
    /\ UNCHANGED file_vars

StartSession ==
    /\ open_sessions < MaxSessions
    /\ SessionCalled("start_session",
                     start_session(<<open_sessions, session_open>>),
                     MsgSessionStarted)

EndSession ==
    SessionCalled("end_session", end_session(<<open_sessions, session_open>>),
                  MsgSessionEnded)

\* A DatabaseFile call with outcome out, made once the result of the one
\* before has been taken
FileCalled(op, name, directory, out) ==
    /\ file_call = NoFileCall
    /\ file_call' = FileCall(op, name, directory, out.raised, out.ret)
    /\ file_pre' = file
    /\ fs_pre' = fs
    /\ file' = out.file
    /\ fs' = out.disk.fs
    /\ dirs' = out.disk.dirs
    /\ UNCHANGED <<manager_vars, session_vars>>

\* DatabaseFile(name, directory): a construction that raises leaves the
\* program with the object it had.
Construct ==
    \E name \in FileNames, directory \in Directories :
        LET out == DatabaseFile(Disk, name, directory)
        IN  FileCalled("__init__", name, directory,
                       IF out.raised = "none" THEN out
                       ELSE [out EXCEPT !.file = file])

Exists ==
    /\ file # NoFile
    /\ FileCalled("exists", file.name, "", exists(file, Disk))

Create ==
    /\ file # NoFile
    /\ FileCalled("create", file.name, "", create(file, Disk))

Move ==
    /\ file # NoFile
    /\ \E target_directory \in Directories :
           FileCalled("move", file.name, target_directory,
                      move(file, Disk, target_directory))

Delete ==
    /\ file # NoFile
    /\ FileCalled("delete", file.name, "", delete(file, Disk))

\* The caller takes the result (or catches the exception) of the
\* DatabaseFile call that ended; the object and the disk stay as they are.
FileReturn ==
    /\ file_call # NoFileCall
    /\ file_call' = NoFileCall
    /\ file_pre' = file
    /\ fs_pre' = fs
    /\ UNCHANGED <<file, fs, dirs, manager_vars, session_vars>>

Calls(h) ==
    \/ AddItem(h)
    \/ AddMultipleItems(h)
    \/ AppendDataframe(h)
    \/ FetchAllItems(h)
    \/ FetchItemById(h)
    \/ FetchItemsByAttribute(h)
    \/ FilterItems(h)
    \/ UpdateItem(h)
    \/ DeleteItem(h)
    \/ DeleteItemsByAttribute(h)
    \/ DeleteItemsByFilter(h)
    \/ ClearTable(h)

Next == Calls(FALSE) \/ Return
NextHistory == Calls(TRUE) \/ Return

NextSessions == StartSession \/ EndSession \/ Calls(TRUE) \/ Return
NextFile == Construct \/ Exists \/ Create \/ Move \/ Delete \/ FileReturn

NextTypes == DictTypesMatch \/ Return
Spec == Init /\ [][Next]_vars
SpecSessions == Init /\ [][NextSessions]_vars
SpecFile == Init /\ [][NextFile]_vars
SpecTypes == Init /\ [][NextTypes]_vars
SpecHistory == Init /\ [][NextHistory]_vars

-----------------------------------------------------------------------------
(* Properties.  A call's properties are stated on the state in which the call
   has just ended: call holds its arguments, pre the rows stored before it. *)

\* The row of rows with identifier item_id, as a set
WithId(rows, item_id) == {r \in rows : r.id = item_id}

\* The keywords of the call name only columns / pass the declared types.
KnownKeys(kwargs) == \A k \in DOMAIN kwargs : k \in {"id", "name", "age", "email"}
SqlTypeOf(v) ==
    CASE v.t = "int" -> "Integer" [] v.t = "float" -> "Float"
      [] v.t = "bool" -> "Boolean" [] v.t = "datetime" -> "DateTime"
      [] OTHER -> "String"
DeclaredTypes(kwargs) ==
    \A k \in DOMAIN kwargs \cap get_column_names :
        SqlTypeOf(kwargs[k]) = get_column_types[k]

\* A keyword repeats the non-NULL value some row of rows holds in a unique
\* column.
Duplicates(kwargs, rows) ==
    \E c \in {"id", "email"} \cap DOMAIN kwargs :
        kwargs[c] # None /\ \E r \in rows : r[c] = kwargs[c]

\* The call left every stored row as it was, in the session and in the file.
RowsUnchanged == session_rows = pre /\ db_rows = pre

\* C1: add_item of a record that repeats the value an already stored record
\* holds in a unique-constrained column (id, email) raises, with
\* IntegrityError when the record passes the validation, and the number of
\* stored records is the same after the call as before.
C1_DuplicateAddRaises ==
    (call.op = "add_item" /\ Duplicates(call.kwargs, pre))
        => /\ raised # "none"
           /\ (KnownKeys(call.kwargs) /\ DeclaredTypes(call.kwargs)
                  => raised = "IntegrityError")
           /\ Cardinality(session_rows) = Cardinality(pre)
           /\ Cardinality(db_rows) = Cardinality(pre)

C1_Witness ==
    /\ call.op = "add_item"
    /\ DOMAIN call.kwargs = {"name", "age", "email"}
    /\ \E r \in pre : r.email = call.kwargs.email
    /\ raised = "IntegrityError"
    /\ Cardinality(session_rows) = 1

AddStored == call.op = "add_item" /\ raised = "none"

\* fetch_item_by_id(item_id) on the current state returns a record holding
\* every field the call supplied.
FetchReturnsSupplied(item_id) ==
    LET got == fetch_item_by_id(Session, item_id).ret
    IN  /\ got.kind = "item"
        /\ \A k \in DOMAIN call.kwargs : got.items[1][k] = call.kwargs[k]

\* The largest identifier among rows, 0 when there is none
LargestId(rows) ==
    IF rows = {} THEN 0
    ELSE CHOOSE m \in {r.id.i : r \in rows} : \A q \in rows : q.id.i <= m

\* C3 (as amended): after a successful add_item exactly one record is new; its
\* identifier is the supplied id, or else one more than the largest stored
\* identifier (1 in an empty table); fetch_item_by_id with that identifier
\* returns the supplied field values; and in a table holding identifiers
\* 1..k an add without id yields the record returned for k+1.
C3_RoundTrip ==
    AddStored =>
        \E r \in session_rows \ pre :
            /\ session_rows \ pre = {r}
            /\ r.id = IF "id" \in DOMAIN call.kwargs THEN call.kwargs.id
                      ELSE PyInt(LargestId(pre) + 1)
            /\ FetchReturnsSupplied(r.id)
            /\ ({q.id.i : q \in pre} = 1..Cardinality(pre)
                    /\ "id" \notin DOMAIN call.kwargs
                  => FetchReturnsSupplied(PyInt(Cardinality(pre) + 1)))

C3_Witness ==
    /\ AddStored
    /\ pre # {}
    /\ DOMAIN call.kwargs = {"name", "age", "email"}
    /\ FetchReturnsSupplied(PyInt(2))

\* C3 (as claimed): ... and in a table that started empty the n-th
\* successfully added record is the one returned for identifier n.
C3_NthAddedHasIdN ==
    (AddStored /\ n_added <= MaxAdded) => FetchReturnsSupplied(PyInt(n_added))

\* The rows of pre equal to the call's keywords on every keyword
Matching == {r \in pre : \A k \in DOMAIN call.kwargs : r[k] = call.kwargs[k]}

\* seq lists exactly the rows of S, each once
ListsExactly(seq, S) == Range(seq) = S /\ Len(seq) = Cardinality(S)

\* C4 (as amended): fetch_items_by_attribute returns exactly the stored
\* records equal to the given value(s), each once, in ascending identifier
\* order; that is insertion order whenever the identifiers of the stored
\* records ascend in insertion order.
C4_FetchByAttributeExact ==
    call.op = "fetch_items_by_attribute" =>
        /\ raised = "none"
        /\ ret.kind = "list"
        /\ ListsExactly(ret.items, Matching)
        /\ \A m, n \in 1..Len(ret.items) :
               m < n => ret.items[m].id.i < ret.items[n].id.i
        /\ (\A m, n \in 1..Len(inserted) : m < n => inserted[m] < inserted[n])
              => [n \in 1..Len(ret.items) |-> ret.items[n].id.i]
                     = keep_ids(inserted, Matching)

C4_Witness ==
    /\ call.op = "fetch_items_by_attribute"
    /\ DOMAIN call.kwargs = {"age"}
    /\ Cardinality(pre) = 2
    /\ Len(ret.items) = 1

\* C4 (as claimed): fetch_items_by_attribute returns exactly the matching
\* records, listed in the order in which they were inserted.
C4_InsertionOrder ==
    call.op = "fetch_items_by_attribute" =>
        /\ ret.kind = "list"
        /\ ListsExactly(ret.items, Matching)
        /\ [n \in 1..Len(ret.items) |-> ret.items[n].id.i]
               = keep_ids(inserted, Matching)

\* C5 (as claimed): update_item with an unknown attribute name raises no error
\* and still writes the known attributes passed in the same call to the
\* record with that identifier.
C5_UnknownAttributesIgnored ==
    (call.op = "update_item" /\ ~KnownKeys(call.kwargs)) =>
        /\ raised = "none"
        /\ \A r \in WithId(pre, call.item_id) :
               \E q \in WithId(session_rows, call.item_id) :
                   \A k \in DOMAIN call.kwargs \cap get_column_names :
                       q[k] = call.kwargs[k]

\* The update that just ended was applied to a stored record and gave it a
\* non-NULL value that another record holds in a unique column.
UpdateConflicts ==
    /\ call.op = "update_item"
    /\ KnownKeys(call.kwargs)
    /\ WithId(pre, call.item_id) # {}
    /\ \E c \in {"id", "email"} \cap DOMAIN call.kwargs :
           /\ call.kwargs[c] # None
           /\ \E r \in pre : r.id # call.item_id /\ r[c] = call.kwargs[c]

\* C6: update_item that would give a record a unique-constrained value held by
\* another record raises IntegrityError after logging the failure, and every
\* stored record, the targeted one included, keeps its field values.
C6_UpdateConflictRolledBack ==
    UpdateConflicts =>
        /\ raised = "IntegrityError"
        /\ RowsUnchanged
        /\ \E n \in DOMAIN log : log[n] = Log("error", MsgUnableUpdate)

C6_Witness ==
    /\ UpdateConflicts
    /\ DOMAIN call.kwargs = {"name", "email"}
    /\ raised = "IntegrityError"
    /\ \E r \in session_rows : r.id = call.item_id /\ r.email = None

\* The rows filter_items selects among pre for the call's filters
Selected ==
    Range(filter_items([db |-> pre, view |-> pre, active |-> TRUE],
                       call.filters, call.use_or).ret.items)

\* C7: delete_item, delete_items_by_attribute and delete_items_by_filter
\* remove exactly the matching records (that identifier; equal on every given
\* attribute; selected by filter_items) and leave every other record stored
\* with its field values.
C7_DeleteExactlyMatching ==
    /\ call.op = "delete_item" =>
           /\ raised = "none"
           /\ session_rows = pre \ WithId(pre, call.item_id)
           /\ db_rows = session_rows
    /\ call.op = "delete_items_by_attribute" =>
           /\ raised = "none"
           /\ session_rows = pre \ Matching
           /\ db_rows = session_rows
    /\ (call.op = "delete_items_by_filter" /\ raised = "none") =>
           /\ session_rows = pre \ Selected
           /\ db_rows = session_rows

C7_Witness ==
    /\ call.op = "delete_items_by_filter"
    /\ Len(call.filters) = 1
    /\ call.filters[1].column = "age"
    /\ Cardinality(pre) = 2
    /\ Cardinality(session_rows) = 1
    /\ session_rows \subseteq pre

\* The call's filters name columns and use operators of the fixed set.
WellFormedFilters ==
    \A n \in DOMAIN call.filters :
        /\ call.filters[n].column \in get_column_names
        /\ call.filters[n].spec.op
               \in {"==", "!=", ">", ">=", "<", "<=", "in", "like"}

\* The update or delete that just ended found no stored record to act on.
NothingToChange ==
    \/ call.op \in {"update_item", "delete_item"}
           /\ WithId(pre, call.item_id) = {}
    \/ call.op = "delete_items_by_attribute" /\ Matching = {}
    \/ call.op = "delete_items_by_filter" /\ WellFormedFilters /\ Selected = {}

\* C8 (as claimed): update_item, delete_item, delete_items_by_attribute and
\* delete_items_by_filter called when no stored record matches raise no error
\* and leave the stored records and their field values unchanged.
C8_NotFoundIsNonFatal ==
    NothingToChange => (raised = "none" /\ RowsUnchanged)

\* The read that just ended found no stored record.
NothingToRead ==
    \/ call.op = "fetch_all_items" /\ pre = {}
    \/ call.op = "fetch_item_by_id" /\ WithId(pre, call.item_id) = {}
    \/ call.op = "fetch_items_by_attribute" /\ Matching = {}
    \/ call.op = "filter_items" /\ WellFormedFilters /\ Selected = {}

NotFoundMessages ==
    {MsgNoItems, MsgNotFoundById, MsgNoneByAttr, MsgNoneFiltered,
     MsgNotFoundDelete, MsgNoneDeleteAttr, MsgNoneDeleteFilter}
SuccessMessages ==
    {MsgAllRetrieved, MsgFoundById, MsgFoundByAttr, MsgUpdated,
     MsgDeletedById, MsgDeletedByAttr, MsgDeletedFilter}

\* C9 (as claimed): whenever a read, update or delete finds no matching
\* record, the call emits a warning entry saying nothing was found and no
\* 'found', 'updated' or 'deleted' success entry.
C9_NotFoundIsLogged ==
    (NothingToRead \/ NothingToChange) =>
        /\ \E n \in DOMAIN log :
               log[n].level = "warning" /\ log[n].msg \in NotFoundMessages
        /\ \A n \in DOMAIN log : log[n].msg \notin SuccessMessages

\* C10 (as claimed): fetch_all_items, fetch_items_by_attribute and
\* filter_items return None when no stored record matches and a non-empty
\* list otherwise; fetch_item_by_id returns None when no record has the
\* identifier.
C10_AbsentResultIsNone ==
    /\ NothingToRead => ret = ReturnsNone
    /\ (~NothingToRead /\ raised = "none"
           /\ call.op \in {"fetch_all_items", "fetch_items_by_attribute",
                           "filter_items"})
         => (ret.kind = "list" /\ ret.items # <<>>)

\* The named comparison of a cell with a filter's value, on the values
\* themselves: an absent cell differs from every value and equals None.
Named(spec, cell) ==
    CASE spec.op = "==" -> cell = spec.value
      [] spec.op = "!=" -> cell # spec.value
      [] spec.op = "in" -> cell \in spec.values
      [] spec.op = "like" -> cell # None /\ like(cell.s, spec.value.s)
      [] spec.op = ">"  -> cell # None /\ cell.i > spec.value.i
      [] spec.op = ">=" -> cell # None /\ cell.i >= spec.value.i
      [] spec.op = "<"  -> cell # None /\ cell.i < spec.value.i
      [] spec.op = "<=" -> cell # None /\ cell.i <= spec.value.i

\* The named comparison as the database evaluates it: an absent (NULL) cell
\* satisfies only == None, and a stored cell compared with None only != None.
SqlNamed(spec, cell) ==
    IF spec.op = "in" THEN cell # None /\ cell \in spec.values
    ELSE IF cell = None THEN spec.op = "==" /\ spec.value = None
    ELSE IF spec.value = None THEN spec.op = "!="
    ELSE Named(spec, cell)

\* The filter_items call that just ended had a non-empty specification whose
\* entries name columns and use operators of the fixed set.
FilterCall ==
    /\ call.op = "filter_items"
    /\ call.filters # <<>>
    /\ WellFormedFilters

\* The result of the call lists exactly the records of S (None when S is
\* empty).
ResultIs(S) ==
    /\ raised = "none"
    /\ IF S = {} THEN ret = ReturnsNone
       ELSE ret.kind = "list" /\ ListsExactly(ret.items, S)

NamesNoColumn ==
    \E n \in DOMAIN call.filters : call.filters[n].column \notin get_column_names
UsesNoOperator ==
    \E n \in DOMAIN call.filters :
        call.filters[n].spec.op
            \notin {"==", "!=", ">", ">=", "<", "<=", "in", "like"}

\* C12 (as claimed): filter_items and delete_items_by_filter raise
\* AttributeError for a specification that names a column not on the table
\* and ValueError for one that uses an operator outside the fixed set, and
\* then no record is deleted or modified.
C12_IllFormedFilterRaises ==
    call.op \in {"filter_items", "delete_items_by_filter"} =>
        /\ (NamesNoColumn /\ ~UsesNoOperator)
               => (raised = "AttributeError" /\ RowsUnchanged)
        /\ (UsesNoOperator /\ ~NamesNoColumn)
               => (raised = "ValueError" /\ RowsUnchanged)
        /\ (NamesNoColumn /\ UsesNoOperator)
               => (raised \in {"AttributeError", "ValueError"} /\ RowsUnchanged)

\* Row n of the call's DataFrame holds, in a unique column, a value that a
\* stored record or another row of the DataFrame holds too.
DfRowDuplicates(n) ==
    \E c \in {"id", "email"} \cap call.df.columns :
        /\ call.df.rows[n][c] # None
        /\ \/ \E r \in pre : r[c] = call.df.rows[n][c]
           \/ \E m \in DOMAIN call.df.rows :
                  m # n /\ call.df.rows[m][c] = call.df.rows[n][c]

DfColumnsKnown == call.df.columns \subseteq {"id", "name", "age", "email"}
DfTypesDeclared ==
    \A c \in call.df.columns \cap {"id", "name", "age", "email"} :
        map_dtype_to_sql(df_dtype(call.df, c))
            = (IF c \in {"id", "age"} THEN "Integer" ELSE "String")

C14_OneSession ==
    /\ [](/\ open_sessions <= 1
          /\ call.op = "end_session" => open_sessions = 0)
    /\ [][call'.op \notin {"", "start_session", "end_session"}
              => UNCHANGED <<open_sessions, session_open>>]_vars

\* The files on the disk d (a set of files) in the object's directory under
\* the object's name
FilesOf(obj, d) ==
    {f \in d : f.dir = obj.directory /\ f.name = obj.name.chars}

\* C15: create on a path where no file exists results in the file existing
\* (exists() is true afterwards); create where the file exists changes
\* neither the file, its content nor anything else, so a second create
\* changes nothing.
C15_CreateIdempotent ==
    file_call.op = "create" =>
        /\ file_call.raised = "none"
        /\ file = file_pre
        /\ exists(file, Disk).ret = "True"
        /\ FilesOf(file_pre, fs_pre) = {} =>
               fs \ FilesOf(file, fs) = fs_pre
        /\ FilesOf(file_pre, fs_pre) # {} => fs = fs_pre
        /\ create(file, Disk).disk = Disk
        /\ create(file, Disk).file = file

\* create was called where a file of another program has the name.
C15_Witness ==
    /\ file_call.op = "create"
    /\ \E f \in FilesOf(file_pre, fs_pre) : f.content = "other"
    /\ \E f \in FilesOf(file, fs) : f.content = "other"

\* The files named as the object in the target directory of the move
InTarget(d) ==
    {f \in d : f.dir = file_call.directory /\ f.name = file_pre.name.chars}

\* C16: move(target) when a file with the same name exists in the target
\* directory changes nothing: the disk (the file at the original location
\* and the file in the target directory) and the object's fields are as
\* before.
C16_MoveOntoExisting ==
    (file_call.op = "move" /\ InTarget(fs_pre) # {}) =>
        /\ file_call.raised = "none"
        /\ fs = fs_pre
        /\ file = file_pre

\* The object's file existed and was to be moved to another directory that
\* holds another program's file of that name.
C16_Witness ==
    /\ file_call.op = "move"
    /\ file_call.directory # file_pre.directory
    /\ FilesOf(file_pre, fs_pre) # {}
    /\ \E f \in InTarget(fs_pre) : f.content = "other"
    /\ \E f \in InTarget(fs) : f.content = "other"
    /\ FilesOf(file_pre, fs) # {}

\* The move that just ended was called with the object's file in place and
\* no file of that name in the target directory.
MoveCase ==
    /\ file_call.op = "move"
    /\ FilesOf(file_pre, fs_pre) # {}
    /\ InTarget(fs_pre) = {}

\* The file, with its content, is at the target and no longer at the
\* original location, nothing else on the disk changed, directory is the
\* target, and file_path and abspath name the new location.
Relocated ==
    /\ file_call.raised = "none"
    /\ FilesOf(file_pre, fs) = {}
    /\ InTarget(fs) = {[f EXCEPT !.dir = file_call.directory]
                           : f \in FilesOf(file_pre, fs_pre)}
    /\ fs \ InTarget(fs) = fs_pre \ FilesOf(file_pre, fs_pre)
    /\ file.name = file_pre.name
    /\ file.directory = file_call.directory
    /\ file.file_path = [root |-> "", dir |-> file_call.directory,
                         name |-> file_pre.name.chars]
    /\ file.abspath = [root |-> "cwd", dir |-> file_call.directory,
                       name |-> file_pre.name.chars]

\* C17 (amended): move(target) when the file exists at the current location
\* and the target directory exists and holds no file of that name relocates
\* the file and updates directory, file_path and abspath; when the target
\* directory does not exist the call raises FileNotFoundError and changes
\* nothing.
C17_MoveRelocates ==
    MoveCase =>
        IF file_call.directory \in dirs THEN Relocated
        ELSE /\ file_call.raised = "FileNotFoundError"
             /\ fs = fs_pre
             /\ file = file_pre

C17_Witness ==
    /\ file_call.op = "move"
    /\ FilesOf(file_pre, fs_pre) # {}
    /\ InTarget(fs_pre) = {}
    /\ InTarget(fs) # {}
    /\ file.directory = file_call.directory
    /\ file.directory # file_pre.directory

\* C18: delete on a file that does not exist raises no error and changes
\* neither the disk nor the object's fields; delete on an existing file
\* removes it, and only it, so that exists() is false afterwards.
C18_DeleteMissingIsNoOp ==
    file_call.op = "delete" =>
        /\ file_call.raised = "none"
        /\ file = file_pre
        /\ FilesOf(file_pre, fs_pre) = {} => fs = fs_pre
        /\ FilesOf(file_pre, fs_pre) # {} =>
               /\ fs = fs_pre \ FilesOf(file_pre, fs_pre)
               /\ exists(file, Disk).ret = "False"

\* delete was called on an object whose file was not there, with other
\* files on the disk.
C18_Witness ==
    /\ file_call.op = "delete"
    /\ FilesOf(file_pre, fs_pre) = {}
    /\ fs_pre # {}
    /\ fs = fs_pre

\* A name that is a text ending in .db, whatever the case of its letters
EndsInDb(name) ==
    /\ name.t = "str"
    /\ Len(name.chars) >= 3
    /\ SubSeq(name.chars, Len(name.chars) - 2, Len(name.chars))
           \in {<<".", x, y>> : x \in {"d", "D"}, y \in {"b", "B"}}

\* C19 (as claimed): every DatabaseFile object has a name ending in .db,
\* compared case-insensitively; construction with any other name, or a name
\* that is not a string, raises ValueError; create, move and delete never
\* change the name.
C19_NameEndsInDb ==
    /\ file # NoFile => EndsInDb(file.name)
    /\ (file_call.op = "__init__" /\ ~EndsInDb(file_call.name))
           => file_call.raised = "ValueError"
    /\ file_call.op \in {"create", "move", "delete"}
           => file.name = file_pre.name

\* C17 (as claimed): move(target) when the file exists at the current
\* location and no file of that name exists in the target directory
\* relocates the file and updates directory, file_path and abspath.
C17_MoveAlwaysRelocates == MoveCase => Relocated

\* C20 (amended): fetch_all_items on a non-empty table returns every stored
\* record exactly once, in ascending identifier order; that is the order of
\* insertion whenever the identifiers of the stored records ascend in
\* insertion order.
C20_FetchAllExact ==
    (call.op = "fetch_all_items" /\ pre # {}) =>
        /\ raised = "none"
        /\ ret.kind = "list"
        /\ ListsExactly(ret.items, pre)
        /\ \A m, n \in 1..Len(ret.items) :
               m < n => ret.items[m].id.i < ret.items[n].id.i
        /\ (\A m, n \in 1..Len(inserted) : m < n => inserted[m] < inserted[n])
              => [n \in 1..Len(ret.items) |-> ret.items[n].id.i] = inserted

C20_Witness ==
    /\ call.op = "fetch_all_items"
    /\ Cardinality(pre) = 2
    /\ Len(ret.items) = 2
    /\ inserted = <<1, 2>>

\* C20 (as claimed): fetch_all_items on a non-empty table returns every
\* stored record exactly once, in the order in which they were inserted.
C20_FetchAllInsertionOrder ==
    (call.op = "fetch_all_items" /\ pre # {}) =>
        /\ ret.kind = "list"
        /\ ListsExactly(ret.items, pre)
        /\ [n \in 1..Len(ret.items) |-> ret.items[n].id.i] = inserted


\* The update that just ended named only columns and a stored record.
UpdateApplies ==
    /\ call.op = "update_item"
    /\ KnownKeys(call.kwargs)
    /\ WithId(pre, call.item_id) # {}

\* The update would break a constraint of the table: a unique value another
\* record holds, or NULL for the name.
UpdateBreaksConstraint ==
    \/ UpdateConflicts
    \/ "name" \in DOMAIN call.kwargs /\ call.kwargs.name = None

\* The record fetch_item_by_id(item_id) returns now carries the keywords of
\* the call and otherwise the values of item, and the other records are those
\* stored before the call.
UpdatedAs(item, item_id) ==
    LET got == fetch_item_by_id(Session, item_id).ret
    IN  /\ got.kind = "item"
        /\ \A k \in DOMAIN call.kwargs : got.items[1][k] = call.kwargs[k]
        /\ \A c \in get_column_names \ DOMAIN call.kwargs :
               got.items[1][c] = item[c]
        /\ session_rows \ {got.items[1]} = pre \ {item}
        /\ db_rows = session_rows

NoSharedUnique(rows) ==
    \A r, q \in rows :
        r # q => /\ r.id # q.id
                 /\ r.email # None => r.email # q.email

\* C22: after any sequence of add_item, add_multiple_items, update_item and
\* delete calls, successful or failed, no two stored records share an
\* identifier and no two share a value in a unique-constrained column.
C22_UniqueKept ==
    /\ NoSharedUnique(session_rows)
    /\ NoSharedUnique(db_rows)

C22_Witness ==
    /\ call.op \in {"add_item", "add_multiple_items", "update_item"}
    /\ raised = "IntegrityError"
    /\ Cardinality(session_rows) = 2
    /\ Cardinality(db_rows) = 2
    /\ \E r \in session_rows : r.email # None


\* The public operations of DatabaseManager that write
MutatingOps ==
    {"add_item", "add_multiple_items", "update_item", "delete_item",
     "delete_items_by_attribute", "delete_items_by_filter", "clear_table"}

BatchRows == session_rows \ pre

\* The entry cannot be stored whatever the table holds: a key that is no
\* column, a value of another type than the column's, or no name.
Invalid(entry) ==
    \/ ~KnownKeys(entry)
    \/ ~DeclaredTypes(entry)
    \/ "name" \notin DOMAIN entry

\* The exception the rejection of the entry raises, given the stored rows
RejectedWith(entry, rows) ==
    IF ~KnownKeys(entry) THEN "ValueError"
    ELSE IF ~DeclaredTypes(entry) THEN "TypeError"
    ELSE IF "name" \notin DOMAIN entry \/ Duplicates(entry, rows)
    THEN "IntegrityError"
    ELSE "none"

\* C24: add_multiple_items is not all-or-nothing: when the k-th entry of the
\* batch is rejected the call raises at that entry, the first k-1 entries
\* remain stored and committed, and no entry from the k-th onward is stored;
\* a batch with no rejected entry is stored whole.
C24_BatchStopsAtRejected ==
    call.op = "add_multiple_items" =>
        LET entries == call.entries
            stored == Cardinality(BatchRows)
        IN  /\ pre \subseteq session_rows
            /\ db_rows = session_rows
            /\ stored <= Len(entries)
            /\ \A j \in 1..stored :
                   /\ ~Invalid(entries[j])
                   /\ \E r \in BatchRows :
                          \A c \in DOMAIN entries[j] : r[c] = entries[j][c]
            /\ stored = Len(entries) => raised = "none"
            /\ stored < Len(entries) =>
                   /\ raised # "none"
                   /\ raised = RejectedWith(entries[stored + 1], session_rows)

C24_Witness ==
    /\ call.op = "add_multiple_items"
    /\ Len(call.entries) = 3
    /\ Cardinality(BatchRows) = 1
    /\ raised = "TypeError"
    /\ pre # {}
    /\ db_rows = session_rows


\* The exceptions a rejected write raises
WriteFailures == {"ValueError", "TypeError", "IntegrityError"}

\* The keywords make a record the table accepts next to rows.
ValidFor(kwargs, rows) ==
    /\ KnownKeys(kwargs)
    /\ DeclaredTypes(kwargs)
    /\ "name" \in DOMAIN kwargs /\ kwargs.name # None
    /\ ~Duplicates(kwargs, rows)

\* The call stored exactly one record, made of its keywords, NULL in the
\* other columns and an identifier no stored record had.
StoredExactly(kwargs) ==
    \E r \in session_rows \ pre :
        /\ session_rows = pre \cup {r}
        /\ db_rows = session_rows
        /\ \A c \in DOMAIN kwargs : r[c] = kwargs[c]
        /\ \A c \in {"name", "age", "email"} \ DOMAIN kwargs : r[c] = None
        /\ \A q \in pre : q.id # r.id

\* C25: a failed write never poisons the manager: an add_item or update_item
\* that raises ValueError, TypeError or IntegrityError stores nothing and
\* leaves the session usable, and the next add_item with a valid,
\* non-conflicting record succeeds and stores exactly that record.
C25_FailedWriteLeavesNoTrace ==
    /\ session_active
    /\ (call.op \in {"add_item", "update_item"} /\ raised \in WriteFailures) =>
           RowsUnchanged
    /\ (call.op = "add_item" /\ failures.before
            /\ ValidFor(call.kwargs, pre)) =>
           /\ raised = "none"
           /\ StoredExactly(call.kwargs)

C25_Witness ==
    /\ call.op = "add_item"
    /\ failures.before
    /\ ValidFor(call.kwargs, pre)
    /\ pre # {}
    /\ "email" \in DOMAIN call.kwargs
    /\ raised = "none"
    /\ StoredExactly(call.kwargs)


\* The last call logged an entry with this message at level info.
LoggedInfo(msg) == \E n \in DOMAIN log : log[n] = Log("info", msg)

\* C26 (as claimed): the success entries are truthful: add_item emits 'Item
\* added to database' only in calls that stored the record and update_item
\* emits 'Item updated in database' only in calls that found the record and
\* wrote it; a call that raises an integrity error or finds no record emits
\* neither.
C26_SuccessLogTruthful ==
    /\ (call.op = "add_item" /\ LoggedInfo(MsgAdded)) =>
           /\ raised = "none"
           /\ StoredExactly(call.kwargs)
    /\ (call.op = "update_item" /\ LoggedInfo(MsgUpdated)) =>
           /\ raised = "none"
           /\ WithId(pre, call.item_id) # {}


\* The files with the object's name in the source and target directories of
\* the move
NamedInBoth(d) == FilesOf(file_pre, d) \cup InTarget(d)

\* C27: move never destroys a file: in every call the number of files with
\* this name across the source and target directories is the same after the
\* call as before, and when the source does not exist the disk and the
\* object's directory, file_path and abspath are unchanged.
C27_MoveKeepsFiles ==
    file_call.op = "move" =>
        /\ Cardinality(NamedInBoth(fs)) = Cardinality(NamedInBoth(fs_pre))
        /\ {f.content : f \in NamedInBoth(fs)}
               = {f.content : f \in NamedInBoth(fs_pre)}
        /\ FilesOf(file_pre, fs_pre) = {} =>
               /\ fs = fs_pre
               /\ file = file_pre

\* A file was moved to a free place while another file of that name sat in
\* a third directory.
C27_Witness ==
    /\ file_call.op = "move"
    /\ file_call.raised = "none"
    /\ Cardinality(NamedInBoth(fs_pre)) = 1
    /\ FilesOf(file_pre, fs_pre) # {}
    /\ FilesOf(file_pre, fs) = {}
    /\ InTarget(fs) # {}
    /\ Cardinality(fs) = 2

\* C28: after construction and after any sequence of create, move and delete
\* calls the path fields are consistent: file_path is the join of directory
\* and name, abspath is the absolute form of file_path, and exists() answers
\* for the file that delete() removes.
C28_PathsConsistent ==
    file # NoFile =>
        /\ file.file_path = join(file.directory, file.name)
        /\ file.abspath = abspath(file.file_path)
        /\ exists(file, Disk).raised = "none"
        /\ exists(file, Disk).ret = "True" <=> file_at(Disk, file.abspath) # {}
        /\ delete(file, Disk).disk.fs = fs \ FilesOf(file, fs)
        /\ exists(file, delete(file, Disk).disk).ret = "False"

\* An object in the directory new, reached by a move or made there, created
\* or deleted its file while a file made earlier stays in data.
C28_Witness ==
    /\ file_call.op \in {"create", "delete"}
    /\ file # NoFile
    /\ file.directory = "new"
    /\ fs # fs_pre
    /\ \E f \in fs : f.dir = "data"


\* C29: an empty filter specification selects every record: filter_items({})
\* on a non-empty table returns all stored records, each once, and
\* delete_items_by_filter({}) with use_or=False removes every record.
C29_EmptyFilterSelectsAll ==
    /\ (call.op = "filter_items" /\ call.filters = EmptyFilters /\ pre # {}) =>
           /\ raised = "none"
           /\ ret.kind = "list"
           /\ ListsExactly(ret.items, pre)
           /\ RowsUnchanged
    /\ (call.op = "delete_items_by_filter" /\ call.filters = EmptyFilters
            /\ ~call.use_or /\ pre # {}) =>
           /\ raised = "none"
           /\ session_rows = {}
           /\ db_rows = {}

C29_Witness ==
    /\ call.op = "delete_items_by_filter"
    /\ call.filters = EmptyFilters
    /\ ~call.use_or
    /\ Cardinality(pre) = 2
    /\ session_rows = {}
    /\ db_rows = {}


\* The SQL type the claim gives each kind of value: integer to Integer, float
\* to Float, boolean to Boolean, timestamp to DateTime, text or any other
\* object, None included, to String.
ClaimedType(v) ==
    CASE v.t = "int" -> "Integer" [] v.t = "float" -> "Float"
      [] v.t = "bool" -> "Boolean" [] v.t = "datetime" -> "DateTime"
      [] OTHER -> "String"

\* C30 (as claimed): the type check is exact type equality: the values are
\* accepted exactly when the SQL type inferred from each of them is the
\* declared type class of its column, and are rejected with TypeError
\* otherwise (so None for an Integer column and an integer for a Float
\* column are).
C30_ExactTypeEquality ==
    call.op = "_dict_types_match" =>
        IF \A k \in DOMAIN call.kwargs :
               ClaimedType(call.kwargs[k]) = TypedTable[k]
        THEN raised = "none"
        ELSE raised = "TypeError"

====
